---- MODULE Spec2Model ----
(***************************************************************************)
(* The two image/identifier extraction scripts of the repository:          *)
(*   "column" : src/extract_image_and_text.py  (KMeans columns, below-image *)
(*              matching, one JSON save at the end of the run)              *)
(*   "band"   : src/extract_image_and_text_.py (horizontal band and         *)
(*              vertical tolerance, chunked run with JSON checkpoints)      *)
(* A behaviour is one run of one script over a document of NumPages pages.  *)
(* Coordinates are integers; a centre (a + b) / 2 is kept doubled (a + b),  *)
(* which preserves every comparison the scripts make between centres.       *)
(***************************************************************************)
EXTENDS Integers, Sequences, FiniteSets, TLC

VARIABLES
    script,       \* which script runs: "column" or "band"
    pc,           \* position of the run
    page_num,     \* the page loop's variable
    chunk_end,    \* band: `end` of the chunk being processed
    id_entries,   \* identifier entries of the page being processed
    image_info,   \* image candidates of the page being processed
    image_blocks, \* step 2 followed block by block: bboxes of the page's image blocks
    page_images,  \* step 2 followed block by block: page.get_images() of the page
    kmeans,       \* column: cluster centres fitted for the page being processed
    pos,          \* 1-based position of the image loop in its iteration order
    sel,          \* closest_id of every image already handled on this page (0 = None)
    data,         \* the mapping: key -> record
    image_index,  \* the counter that names images and keys records
    files,        \* indices n for which images/img_n.<ext> has been written
    json_file,    \* the JSON file on disk
    error,        \* the exception that ended the run ("none" while there is none)
    matched,      \* history: images of this run for which closest_id was not None
    flushed,      \* history: the mapping as the last completed checkpoint wrote it
    prior,        \* history: the mapping the JSON file held when the run started
    last_page     \* history: whether the page before page_num was "skipped"

vars == <<script, pc, page_num, chunk_end, id_entries, image_info, image_blocks,
          page_images, kmeans, pos,
          sel, data, image_index, files, json_file, error, matched, flushed,
          prior, last_page>>

----------------------------------------------------------------------------
(* Bounds of the model *)

\* pages of the document, len(doc)
NumPages == 2
\* pages per chunk; the script's chunk_size (80) scaled down to the document
ChunkSize == 1
\* most images (image blocks / image xrefs) on one page
MaxImages == 3
\* most text blocks on one page
MaxTexts == 2
\* most records in a JSON file left by an earlier run
MaxPrior == 2

(* Program constants *)

n_clusters == 3
horizontal_tolerance == 50
vertical_tolerance == -2
xref_tolerance == 2

----------------------------------------------------------------------------
(* Sequences and small helpers *)

Abs(a) == IF a < 0 THEN -a ELSE a

Min2(a, b) == IF a < b THEN a ELSE b

RECURSIVE SelectIdx(_, _, _)
\* the subsequence of list at the (ascending) indices in idx, in list order
SelectIdx(list, idx, k) ==
    IF k > Len(list) THEN <<>>
    ELSE (IF k \in idx THEN <<list[k]>> ELSE <<>>) \o SelectIdx(list, idx, k + 1)

SubSeqsUpTo(list, n) ==
    { SelectIdx(list, idx, 1) : idx \in { s \in SUBSET (1..Len(list)) : Cardinality(s) <= n } }

----------------------------------------------------------------------------
(* Geometry of a bbox <<x0, y0, x1, y1>> *)

XCenter2(bbox) == bbox[1] + bbox[3]

YCenter2(bbox) == bbox[2] + bbox[4]

----------------------------------------------------------------------------
(* The document backend: what fitz returns for a page.                      *)
(* A page is [texts, image_blocks, page_images]:                           *)
(*   texts        text blocks [bbox, ids]; ids are the identifiers the      *)
(*                script's id_pattern finds in the block's text, in order   *)
(*   image_blocks bboxes of the type-1 blocks of get_text("dict")           *)
(*   page_images  get_images(full=True) with get_image_rects(xref):         *)
(*                [xref, rects]                                             *)

ColumnImageBoxes ==
    << <<0, 0, 50, 50>>, <<0, 100, 50, 150>>, <<100, 0, 150, 50>>,
       <<200, 0, 250, 50>>, <<120, 100, 170, 150>> >>

ColumnTextBlocks ==
    << [bbox |-> <<0, 60, 50, 70>>,     ids |-> <<"KM# 1">>],
       [bbox |-> <<10, 55, 40, 75>>,    ids |-> <<"KM# 2", "KM# 1">>],
       [bbox |-> <<0, 160, 50, 170>>,   ids |-> <<"KM# 2">>],
       [bbox |-> <<100, 52, 150, 62>>,  ids |-> <<"KM# 2">>],
       [bbox |-> <<0, 20, 50, 30>>,     ids |-> <<"KM# 1">>],
       [bbox |-> <<200, 60, 250, 70>>,  ids |-> <<>>] >>

\* how the page's image placements relate to its image blocks
PlacementKinds == {"exact", "off", "norect", "noxref"}

\* the xref of the image drawn in image block b
XrefOf(b) == CHOOSE k \in 1..Len(ColumnImageBoxes) : ColumnImageBoxes[k] = b

ShiftRight(b, d) == <<b[1] + d, b[2], b[3] + d, b[4]>>

ShiftDown(b, d) == <<b[1], b[2] + d, b[3], b[4] + d>>

\* get_image_rects(xref) of the first image block b of a page: at the
\* block's place ("exact"), displaced by less than the tolerance ("near"),
\* displaced by the tolerance itself on the x or on the y axis ("off",
\* "offy"), drawn twice with the first rect elsewhere and the second at the
\* block ("second"), or without a rect ("norect")
FirstRects(b, kind) ==
    CASE kind = "exact"  -> <<b>>
      [] kind = "near"   -> <<ShiftRight(ShiftDown(b, 1 - xref_tolerance), xref_tolerance - 1)>>
      [] kind = "off"    -> <<ShiftRight(b, xref_tolerance)>>
      [] kind = "offy"   -> <<ShiftDown(b, 0 - xref_tolerance)>>
      [] kind = "second" -> <<ShiftRight(b, 300), b>>
      [] OTHER           -> <<>>

\* placements of the image blocks: every block is drawn from its own xref at
\* its own place, except the first block of the page, whose placement is as
\* `kind` says; with "noxref" the page lists no xref at all (inline images)
PlacementsFor(blocks, kind) ==
    IF kind = "noxref" THEN <<>>
    ELSE [k \in 1..Len(blocks) |->
            [xref |-> XrefOf(blocks[k]),
             rects |-> IF k > 1 THEN <<blocks[k]>> ELSE FirstRects(blocks[k], kind)]]

ColumnPages ==
    { [texts |-> t, image_blocks |-> b, page_images |-> PlacementsFor(b, kind)] :
        t \in SubSeqsUpTo(ColumnTextBlocks, MaxTexts),
        b \in SubSeqsUpTo(ColumnImageBoxes, MaxImages),
        kind \in PlacementKinds }

----------------------------------------------------------------------------
(* The mapping and its JSON file *)

IntKey(n) == [t |-> "int", v |-> n]

\* the string str(n)
StrKey(n) == [t |-> "str", v |-> n]

EmptyMap == [k \in {} |-> 0]

\* data[key] = rec
Put(map, key, rec) ==
    [k \in DOMAIN map \cup {key} |-> IF k = key THEN rec ELSE map[k]]

Record(index, page, ent) ==
    [image |-> index, page |-> page, unique_number |-> ent.id]

----------------------------------------------------------------------------
(* src/extract_image_and_text.py: steps 1 and 2 of a page *)

RECURSIVE IdEntriesFirst(_)
\* re.search: the first identifier of every text block that has one
IdEntriesFirst(texts) ==
    IF texts = <<>> THEN <<>>
    ELSE (IF Head(texts).ids # <<>>
          THEN <<[id |-> Head(texts).ids[1], bbox |-> Head(texts).bbox]>>
          ELSE <<>>) \o IdEntriesFirst(Tail(texts))

\* Variant of WithinTolerance that compares the x axis only; C11 must tell
\* it apart.
WithinToleranceXOnly(rect, bbox) ==
    Abs(rect[1] - bbox[1]) < xref_tolerance

\* abs(rect.x0 - x0) < 2 and abs(rect.y0 - y0) < 2
WithinTolerance(rect, bbox) ==
    /\ Abs(rect[1] - bbox[1]) < xref_tolerance
    /\ Abs(rect[2] - bbox[2]) < xref_tolerance

RECURSIVE MatchingXref(_, _)
\* the loop over page_images for one image block: the first xref whose first
\* rect is within tolerance of the block's top-left corner; an xref without
\* a rect raises inside the try and is passed over; 0 is None
MatchingXref(bbox, images) ==
    IF images = <<>> THEN 0
    ELSE IF /\ Head(images).rects # <<>>
            /\ WithinTolerance(Head(images).rects[1], bbox)
         THEN Head(images).xref
         ELSE MatchingXref(bbox, Tail(images))

RECURSIVE ColumnImageInfo(_, _)
\* image_info of the page; "cluster" is set by step 3 (-1: not set yet)
ColumnImageInfo(blocks, images) ==
    IF blocks = <<>> THEN <<>>
    ELSE LET xref == MatchingXref(Head(blocks), images)
         IN  (IF xref = 0 THEN <<>>
              ELSE <<[xref |-> xref, bbox |-> Head(blocks), cluster |-> -1]>>)
             \o ColumnImageInfo(Tail(blocks), images)

\* Variant of ColumnSkips without the second `continue` (a page none of whose
\* image blocks resolves goes on to step 3); C10 must tell it apart.
ColumnSkipsUnresolved(page) ==
    \/ IdEntriesFirst(page.texts) = <<>>
    \/ page.page_images = <<>>

\* `if not id_entries or not page_images: continue`, then
\* `if not image_info: continue`
ColumnSkips(page) ==
    \/ IdEntriesFirst(page.texts) = <<>>
    \/ page.page_images = <<>>
    \/ ColumnImageInfo(page.image_blocks, page.page_images) = <<>>

----------------------------------------------------------------------------
(* Step 3: KMeans(n_clusters=3, random_state=42).fit_predict on the images' *)
(* x-centres.  A centre is the rational <<s, c>> = s / c (doubled units).   *)
(* The outcomes are those of a converged Lloyd iteration: every non-empty   *)
(* cluster's centre is the mean of its members, every label is the nearest  *)
(* centre (argmin: the lowest index among equals), and the fit finds        *)
(* min(n_clusters, number of distinct points) non-empty clusters.  The      *)
(* centre of a cluster left empty (fewer distinct points than clusters) is  *)
(* where sklearn's relocation of empty clusters put it: the mean of some    *)
(* points of the data.  Which of these outcomes the seeded initialisation   *)
(* reaches is left open.                                                    *)

Clusters == 0 .. (n_clusters - 1)

\* whether x is at most as far from centre a as from centre b
NotFarther(x, a, b) == Abs(x * a[2] - a[1]) * b[2] <= Abs(x * b[2] - b[1]) * a[2]

\* kmeans.predict([[x]])[0]
Predict(centers, x) ==
    CHOOSE j \in Clusters :
        /\ \A k \in Clusters : NotFarther(x, centers[j], centers[k])
        /\ \A k \in Clusters :
              (k < j) => ~NotFarther(x, centers[k], centers[j])

Members(labels, j) == { i \in DOMAIN labels : labels[i] = j }

RECURSIVE SumOver(_, _)
SumOver(X, idx) ==
    IF idx = {} THEN 0
    ELSE LET i == CHOOSE i \in idx : TRUE IN X[i] + SumOver(X, idx \ {i})

MeanOf(X, idx) == <<SumOver(X, idx), Cardinality(idx)>>

\* the centres that labels (and, for the empty clusters, the points they
\* were relocated to) give
CentersOf(X, labels, reloc) ==
    [j \in Clusters |->
        IF Members(labels, j) # {} THEN MeanOf(X, Members(labels, j))
        ELSE MeanOf(X, reloc[j])]

\* the outcomes of kmeans.fit_predict(X) for len(X) >= n_clusters
FitOutcomes(X) ==
    LET n == Len(X)
        distinct == Cardinality({ X[i] : i \in 1..n })
        empty(labels) == { j \in Clusters : Members(labels, j) = {} }
        converged(labels, reloc) ==
            \A i \in 1..n : Predict(CentersOf(X, labels, reloc), X[i]) = labels[i]
    IN  UNION { { [centers |-> CentersOf(X, labels, reloc), labels |-> labels] :
                    reloc \in { r \in [empty(labels) -> (SUBSET (1..n)) \ {{}}] :
                                  converged(labels, r) } } :
                labels \in { l \in [1..n -> Clusters] :
                    n_clusters - Cardinality(empty(l)) = Min2(n_clusters, distinct) } }

----------------------------------------------------------------------------
(* Step 4: the closest identifier below the image, in the image's column *)

RECURSIVE InsertByY(_, _)
\* img put behind every element whose y-centre is not greater (stable)
InsertByY(sorted, img) ==
    IF sorted = <<>> THEN <<img>>
    ELSE IF YCenter2(Head(sorted).bbox) <= YCenter2(img.bbox)
         THEN <<Head(sorted)>> \o InsertByY(Tail(sorted), img)
         ELSE <<img>> \o sorted

\* Variant of SortedByY that leaves the images in block order; C12 must tell
\* it apart.
SortedByYUnsorted(info) == info

RECURSIVE SortedByY(_)
\* sorted(image_info, key=lambda x: x["center"][1])
SortedByY(info) ==
    IF info = <<>> THEN <<>>
    ELSE InsertByY(SortedByY(SubSeq(info, 1, Len(info) - 1)), info[Len(info)])

\* Variant of ColumnEligible without the column test; C1 must tell it apart.
ColumnEligibleAnyColumn(ent, img, centers) ==
    YCenter2(ent.bbox) > YCenter2(img.bbox)

\* `ent_cluster == img_cluster and ent_y_center > img_y`
ColumnEligible(ent, img, centers) ==
    /\ Predict(centers, XCenter2(ent.bbox)) = img.cluster
    /\ YCenter2(ent.bbox) > YCenter2(img.bbox)

RECURSIVE ColumnScan(_, _, _, _, _, _)
\* the loop over id_entries from entry k on; closest = 0 is closest_id = None
\* (min_dist is then float("inf"))
ColumnScan(img, entries, centers, k, min_dist, closest) ==
    IF k > Len(entries) THEN closest
    ELSE LET dist == YCenter2(entries[k].bbox) - YCenter2(img.bbox)
         IN  IF /\ ColumnEligible(entries[k], img, centers)
                /\ (closest = 0 \/ dist < min_dist)
             THEN ColumnScan(img, entries, centers, k + 1, dist, k)
             ELSE ColumnScan(img, entries, centers, k + 1, min_dist, closest)

RECURSIVE ColumnScanUnclaimed(_, _, _, _, _, _)
ColumnScanUnclaimed(img, entries, centers, k, min_dist, closest) ==
    IF k > Len(entries) THEN closest
    ELSE LET dist == YCenter2(entries[k].bbox) - YCenter2(img.bbox)
         IN  IF /\ ColumnEligible(entries[k], img, centers)
                /\ \A j \in 1..Len(sel) : sel[j] # k
                /\ (closest = 0 \/ dist < min_dist)
             THEN ColumnScanUnclaimed(img, entries, centers, k + 1, dist, k)
             ELSE ColumnScanUnclaimed(img, entries, centers, k + 1, min_dist, closest)

\* Variant of ColumnClosest in which an identifier entry an earlier image of
\* the page took is no longer available; C9 must tell it apart.
ColumnClosestUnclaimed(img, entries, centers) ==
    ColumnScanUnclaimed(img, entries, centers, 1, 0, 0)

\* closest_id for img, as an index into id_entries (0: None)
ColumnClosest(img, entries, centers) == ColumnScan(img, entries, centers, 1, 0, 0)

----------------------------------------------------------------------------
(* src/extract_image_and_text_.py: process_pages *)

BandRect1 == <<100, 0, 200, 100>>
BandRect2 == <<100, 20, 200, 90>>
BandRect3 == <<400, 0, 500, 100>>

BandPlacements ==
    << [xref |-> 1, rects |-> <<BandRect1>>],
       [xref |-> 2, rects |-> <<BandRect3, BandRect2>>],
       [xref |-> 3, rects |-> <<>>] >>

BandTextBlocks ==
    << [bbox |-> <<145, 110, 155, 120>>, ids |-> <<"KM# 1">>],
       [bbox |-> <<145, 98, 155, 108>>,  ids |-> <<"KM# 2">>],
       [bbox |-> <<145, 99, 155, 109>>,  ids |-> <<"KM# 2", "KM# 1">>],
       [bbox |-> <<245, 105, 255, 115>>, ids |-> <<"KM# 2">>],
       [bbox |-> <<245, 102, 256, 112>>, ids |-> <<"KM# 1">>],
       [bbox |-> <<45, 104, 55, 114>>,   ids |-> <<"KM# 1">>],
       [bbox |-> <<44, 103, 55, 113>>,   ids |-> <<"KM# 2">>],
       [bbox |-> <<240, 106, 250, 116>>, ids |-> <<"KM# 1">>],
       [bbox |-> <<255, 101, 265, 111>>, ids |-> <<"KM# 2">>],
       [bbox |-> <<145, 130, 155, 140>>, ids |-> <<>>] >>

BandPages ==
    { [texts |-> t, page_images |-> p] :
        t \in SubSeqsUpTo(BandTextBlocks, MaxTexts),
        p \in SubSeqsUpTo(BandPlacements, MaxImages) }

RECURSIVE BandImageInfo(_)
\* one image_info entry per rect of every xref of the page
BandImageInfo(images) ==
    IF images = <<>> THEN <<>>
    ELSE LET img == Head(images)
         IN  [k \in 1..Len(img.rects) |-> [xref |-> img.xref, bbox |-> img.rects[k]]]
             \o BandImageInfo(Tail(images))

RECURSIVE IdEntriesAll(_)
\* re.findall: one entry per identifier of every text block, sharing its bbox
IdEntriesAll(texts) ==
    IF texts = <<>> THEN <<>>
    ELSE LET block == Head(texts)
         IN  [k \in 1..Len(block.ids) |-> [id |-> block.ids[k], bbox |-> block.bbox]]
             \o IdEntriesAll(Tail(texts))

\* `if not image_info: continue`, then `if not id_entries: continue`
BandSkips(page) ==
    \/ BandImageInfo(page.page_images) = <<>>
    \/ IdEntriesAll(page.texts) = <<>>

\* Variant of BelowImage that lets the boundary value pass (`<` for `<=`);
\* C2 must tell it apart.
BelowImageInclusive(ent, img) == ~(ent.bbox[2] < img.bbox[4] + vertical_tolerance)

\* not `ent_top <= img_y1 + vertical_tolerance`
BelowImage(ent, img) == ~(ent.bbox[2] <= img.bbox[4] + vertical_tolerance)

\* Variant of HorizontallyAligned that rejects the two end points (`<=`, `>=`
\* for `<`, `>`); C3 must tell it apart.
HorizontallyAlignedOpen(ent, img) ==
    ~(\/ XCenter2(ent.bbox) <= 2 * (img.bbox[1] - horizontal_tolerance)
      \/ XCenter2(ent.bbox) >= 2 * (img.bbox[3] + horizontal_tolerance))

\* not `ent_center_x < img_x0 - horizontal_tolerance or
\*      ent_center_x > img_x1 + horizontal_tolerance`
HorizontallyAligned(ent, img) ==
    ~(\/ XCenter2(ent.bbox) < 2 * (img.bbox[1] - horizontal_tolerance)
      \/ XCenter2(ent.bbox) > 2 * (img.bbox[3] + horizontal_tolerance))

RECURSIVE BandScan(_, _, _, _, _)
\* the loop over id_entries from entry k on; closest = 0 is closest_id = None
BandScan(img, entries, k, min_dist, closest) ==
    IF k > Len(entries) THEN closest
    ELSE LET dist == entries[k].bbox[2] - img.bbox[4]
         IN  IF /\ BelowImage(entries[k], img)
                /\ HorizontallyAligned(entries[k], img)
                /\ (closest = 0 \/ dist < min_dist)
             THEN BandScan(img, entries, k + 1, dist, k)
             ELSE BandScan(img, entries, k + 1, min_dist, closest)

BandClosest(img, entries) == BandScan(img, entries, 1, 0, 0)

----------------------------------------------------------------------------
(* JSON: json.dump writes every key as a string, json.load returns them so *)

JsonKey(k) == StrKey(k.v)

\* the object json.dump(data, f) writes
Dump(map) ==
    [s \in { JsonKey(k) : k \in DOMAIN map } |->
        map[CHOOSE k \in DOMAIN map : JsonKey(k) = s]]

NoFile == [state |-> "absent", content |-> EmptyMap]

\* the file just opened with mode "w": truncated, nothing written yet
Truncated == [state |-> "partial", content |-> EmptyMap]

Written(map) == [state |-> "complete", content |-> Dump(map)]

\* the mapping an earlier run left with n records
PriorMapping(n) ==
    [k \in { IntKey(i) : i \in 0..(n - 1) } |->
        [image |-> k.v, page |-> 1, unique_number |-> "KM# 1"]]

RECURSIVE Digits(_)
\* the decimal digits of str(n)
Digits(n) == IF n < 10 THEN <<n>> ELSE Digits(n \div 10) \o <<n % 10>>

RECURSIVE SeqLess(_, _)
\* a < b for strings, by their character codes
SeqLess(a, b) ==
    IF b = <<>> THEN FALSE
    ELSE IF a = <<>> THEN TRUE
    ELSE IF Head(a) # Head(b) THEN Head(a) < Head(b)
    ELSE SeqLess(Tail(a), Tail(b))

\* k1 < k2 as Python orders two keys of one type
KeyLess(k1, k2) ==
    IF k1.t = "int" THEN k1.v < k2.v ELSE SeqLess(Digits(k1.v), Digits(k2.v))

\* max(data.keys()) of a non-empty mapping whose keys have one type
MaxKey(map) == CHOOSE m \in DOMAIN map : \A k \in DOMAIN map : ~KeyLess(m, k)

\* `max(data.keys(), default=-1) + 1 if data else 0`: the value, or the
\* TypeError that str + int raises
StartIndex(map) ==
    IF DOMAIN map = {} THEN [raises |-> FALSE, value |-> 0]
    ELSE IF MaxKey(map).t = "int"
         THEN [raises |-> FALSE, value |-> MaxKey(map).v + 1]
         ELSE [raises |-> TRUE, value |-> 0]

----------------------------------------------------------------------------
(* State of a run.  The variables of one page (id_entries, image_info,     *)
(* kmeans and the image loop's) are rebound by the next page before it     *)
(* reads them; the model clears them when the page ends.  An uncaught      *)
(* exception ends the process: pc = "crashed" keeps the mapping, the       *)
(* counter and the page number as they were when it was raised and drops   *)
(* the page's variables.                                                   *)

NoModel == [j \in Clusters |-> <<0, 0>>]

pageVars == <<id_entries, image_info, image_blocks, page_images, kmeans, pos, sel>>

outputVars == <<data, image_index, files, matched>>

\* the order in which the image loop visits image_info
Order == IF script = "column" THEN SortedByY(image_info) ELSE image_info

Running == pc \notin {"done", "crashed", "terminated"}

Init ==
    /\ script \in {"column", "band"}
    /\ pc = IF script = "column" THEN "page" ELSE "start"
    /\ page_num = 0
    /\ chunk_end = 0
    /\ id_entries = <<>>
    /\ image_info = <<>>
    /\ image_blocks = <<>>
    /\ page_images = <<>>
    /\ kmeans = NoModel
    /\ pos = 0
    /\ sel = <<>>
    /\ data = EmptyMap
    /\ image_index = 0
    /\ files = {}
    \* only the band script reads the file an earlier run left
    /\ json_file \in IF script = "column" THEN {NoFile}
                     ELSE {NoFile} \cup { Written(PriorMapping(n)) : n \in 0..MaxPrior }
    /\ error = "none"
    /\ matched = 0
    /\ flushed = EmptyMap
    /\ prior = json_file.content
    /\ last_page = "none"

----------------------------------------------------------------------------
(* src/extract_image_and_text.py *)

\* a page without identifier entries, without images or without a resolved
\* image block: `continue`
ColumnSkipPage ==
    /\ script = "column" /\ pc = "page" /\ page_num < NumPages
    /\ \E page \in ColumnPages : ColumnSkips(page)
    /\ page_num' = page_num + 1
    /\ UNCHANGED <<script, prior, pc, chunk_end, pageVars, outputVars, json_file, flushed, error>>
    /\ last_page' = "skipped"

\* steps 1 and 2 of a page that is not skipped
ColumnBeginPage ==
    /\ script = "column" /\ pc = "page" /\ page_num < NumPages
    /\ \E page \in ColumnPages :
         /\ ~ColumnSkips(page)
         /\ id_entries' = IdEntriesFirst(page.texts)
         /\ image_info' = ColumnImageInfo(page.image_blocks, page.page_images)
    /\ UNCHANGED <<image_blocks, page_images>>
    /\ pc' = "cluster"
    /\ UNCHANGED <<script, prior, page_num, chunk_end, kmeans, pos, sel, outputVars,
                   json_file, flushed, error>>
    /\ last_page' = "none"

\* step 3 on a page with at least n_clusters image candidates
ColumnClusterFit ==
    /\ script = "column" /\ pc = "cluster"
    /\ Len(image_info) >= n_clusters
    /\ \E fit \in FitOutcomes([i \in 1..Len(image_info) |-> XCenter2(image_info[i].bbox)]) :
         /\ kmeans' = fit.centers
         /\ image_info' = [i \in 1..Len(image_info) |->
                              [image_info[i] EXCEPT !.cluster = fit.labels[i]]]
    /\ pc' = "match"
    /\ pos' = 1
    /\ sel' = <<>>
    /\ UNCHANGED <<script, prior, page_num, chunk_end, id_entries, image_blocks,
                   page_images, outputVars, json_file, flushed, error, last_page>>

\* step 3 on a page with fewer image candidates than n_clusters: KMeans.fit
\* raises ValueError (n_samples should be >= n_clusters), which the script
\* does not catch
ColumnClusterError ==
    /\ script = "column" /\ pc = "cluster"
    /\ Len(image_info) < n_clusters
    /\ pc' = "crashed"
    /\ id_entries' = <<>>
    /\ image_info' = <<>>
    /\ image_blocks' = <<>>
    /\ page_images' = <<>>
    /\ UNCHANGED <<script, prior, page_num, chunk_end, kmeans, pos, sel, outputVars,
                   json_file, flushed, last_page>>
    /\ error' = "ValueError"

\* Variant of ColumnMatchNone in which an image without a match consumes an
\* index; C4 must tell it apart.
ColumnMatchNoneCounting ==
    /\ script = "column" /\ pc = "match" /\ pos <= Len(image_info)
    /\ ColumnClosest(Order[pos], id_entries, kmeans) = 0
    /\ sel' = Append(sel, 0)
    /\ pos' = pos + 1
    /\ image_index' = image_index + 1
    /\ UNCHANGED <<script, prior, pc, page_num, chunk_end, id_entries, image_info, image_blocks, page_images,
                   kmeans, data, files, matched, json_file, flushed, error,
                   last_page>>

\* steps 4 and 5 for an image without an eligible identifier
ColumnMatchNone ==
    /\ script = "column" /\ pc = "match" /\ pos <= Len(image_info)
    /\ ColumnClosest(Order[pos], id_entries, kmeans) = 0
    /\ sel' = Append(sel, 0)
    /\ pos' = pos + 1
    /\ UNCHANGED <<script, prior, pc, page_num, chunk_end, id_entries, image_info, image_blocks, page_images, kmeans,
                   outputVars, json_file, flushed,
                   error, last_page>>

\* steps 4 and 5 for an image with a closest identifier: the image is
\* extracted and written, the record is stored, the counter advances
ColumnMatchSave ==
    /\ script = "column" /\ pc = "match" /\ pos <= Len(image_info)
    /\ LET closest_id == ColumnClosest(Order[pos], id_entries, kmeans)
       IN  /\ closest_id # 0
           /\ sel' = Append(sel, closest_id)
           /\ data' = Put(data, IntKey(image_index),
                          Record(image_index, page_num + 1, id_entries[closest_id]))
    /\ files' = files \cup {image_index}
    /\ image_index' = image_index + 1
    /\ matched' = matched + 1
    /\ pos' = pos + 1
    /\ UNCHANGED <<script, prior, pc, page_num, chunk_end, id_entries, image_info, image_blocks, page_images, kmeans,
                   json_file, flushed,
                   error, last_page>>

\* step 5 when doc.extract_image(xref) or the write of the image file
\* raises: nothing catches it
ColumnMatchFail ==
    /\ script = "column" /\ pc = "match" /\ pos <= Len(image_info)
    /\ ColumnClosest(Order[pos], id_entries, kmeans) # 0
    /\ matched' = matched + 1
    /\ pc' = "crashed"
    /\ id_entries' = <<>>
    /\ image_info' = <<>>
    /\ image_blocks' = <<>>
    /\ page_images' = <<>>
    /\ kmeans' = NoModel
    /\ pos' = 0
    /\ sel' = <<>>
    /\ UNCHANGED <<script, prior, page_num, chunk_end, data, image_index, files, json_file,
                   flushed, last_page>>
    /\ error' = "ImageError"

\* the image loop is exhausted: on to the next page
ColumnPageDone ==
    /\ script = "column" /\ pc = "match" /\ pos > Len(image_info)
    /\ page_num' = page_num + 1
    /\ pc' = "page"
    /\ id_entries' = <<>>
    /\ image_info' = <<>>
    /\ image_blocks' = <<>>
    /\ page_images' = <<>>
    /\ kmeans' = NoModel
    /\ pos' = 0
    /\ sel' = <<>>
    /\ UNCHANGED <<script, prior, chunk_end, outputVars, json_file, flushed, error>>
    /\ last_page' = "processed"

\* after the last page: the mapping is written to the JSON file
ColumnSave ==
    /\ script = "column" /\ pc = "page" /\ page_num = NumPages
    /\ json_file' = Written(data)
    /\ pc' = "done"
    /\ UNCHANGED <<script, prior, page_num, chunk_end, pageVars, outputVars, flushed,
                   error, last_page>>

----------------------------------------------------------------------------
(* src/extract_image_and_text_.py *)

\* __main__: load the JSON file if it exists, start the counter
BandLoad ==
    /\ script = "band" /\ pc = "start"
    /\ LET loaded == IF json_file.state = "absent" THEN EmptyMap ELSE json_file.content
       IN  /\ ~StartIndex(loaded).raises
           /\ data' = loaded
           /\ image_index' = StartIndex(loaded).value
    /\ pc' = "chunk"
    /\ UNCHANGED <<script, prior, page_num, chunk_end, pageVars, files, matched, json_file,
                   flushed,
                   error, last_page>>

\* __main__: the start of the counter raises TypeError
BandLoadError ==
    /\ script = "band" /\ pc = "start"
    /\ json_file.state # "absent"
    /\ StartIndex(json_file.content).raises
    /\ data' = json_file.content
    /\ pc' = "crashed"
    /\ UNCHANGED <<script, prior, page_num, chunk_end, pageVars, image_index, files, matched,
                   json_file, flushed, last_page>>
    /\ error' = "TypeError"

\* `for start in range(0, total_pages, chunk_size)`: the next chunk
BandNextChunk ==
    /\ script = "band" /\ pc = "chunk"
    /\ chunk_end < NumPages
    /\ page_num' = chunk_end
    /\ chunk_end' = chunk_end + ChunkSize
    /\ pc' = "page"
    /\ UNCHANGED <<script, prior, pageVars, outputVars, json_file, flushed,
                   error, last_page>>

\* no chunk is left
BandFinish ==
    /\ script = "band" /\ pc = "chunk"
    /\ chunk_end >= NumPages
    /\ pc' = "done"
    /\ UNCHANGED <<script, prior, page_num, chunk_end, pageVars, outputVars, json_file,
                   flushed,
                   error, last_page>>

\* process_pages: a page without images or without identifier entries
BandSkipPage ==
    /\ script = "band" /\ pc = "page" /\ page_num < Min2(chunk_end, NumPages)
    /\ \E page \in BandPages : BandSkips(page)
    /\ page_num' = page_num + 1
    /\ UNCHANGED <<script, prior, pc, chunk_end, pageVars, outputVars, json_file, flushed, error>>
    /\ last_page' = "skipped"

\* process_pages: steps 1 and 2 of a page that is not skipped
BandBeginPage ==
    /\ script = "band" /\ pc = "page" /\ page_num < Min2(chunk_end, NumPages)
    /\ \E page \in BandPages :
         /\ ~BandSkips(page)
         /\ image_info' = BandImageInfo(page.page_images)
         /\ UNCHANGED <<image_blocks, page_images>>
         /\ id_entries' = IdEntriesAll(page.texts)
    /\ pc' = "match"
    /\ pos' = 1
    /\ sel' = <<>>
    /\ UNCHANGED <<script, prior, page_num, chunk_end, kmeans, outputVars, json_file,
                   flushed, error>>
    /\ last_page' = "none"

\* step 3 for an image without an eligible identifier
BandMatchNone ==
    /\ script = "band" /\ pc = "match" /\ pos <= Len(image_info)
    /\ BandClosest(Order[pos], id_entries) = 0
    /\ sel' = Append(sel, 0)
    /\ pos' = pos + 1
    /\ UNCHANGED <<script, prior, pc, page_num, chunk_end, id_entries, image_info, image_blocks, page_images, kmeans,
                   outputVars, json_file, flushed,
                   error, last_page>>

\* step 3 for an image with a closest identifier, saved
BandMatchSave ==
    /\ script = "band" /\ pc = "match" /\ pos <= Len(image_info)
    /\ LET closest_id == BandClosest(Order[pos], id_entries)
       IN  /\ closest_id # 0
           /\ sel' = Append(sel, closest_id)
           /\ data' = Put(data, IntKey(image_index),
                          Record(image_index, page_num + 1, id_entries[closest_id]))
    /\ files' = files \cup {image_index}
    /\ image_index' = image_index + 1
    /\ matched' = matched + 1
    /\ pos' = pos + 1
    /\ UNCHANGED <<script, prior, pc, page_num, chunk_end, id_entries, image_info, image_blocks, page_images, kmeans,
                   json_file, flushed,
                   error, last_page>>

\* step 3 when doc.extract_image(xref) or the write of the image file
\* raises: nothing catches it
BandMatchFail ==
    /\ script = "band" /\ pc = "match" /\ pos <= Len(image_info)
    /\ BandClosest(Order[pos], id_entries) # 0
    /\ matched' = matched + 1
    /\ pc' = "crashed"
    /\ id_entries' = <<>>
    /\ image_info' = <<>>
    /\ image_blocks' = <<>>
    /\ page_images' = <<>>
    /\ kmeans' = NoModel
    /\ pos' = 0
    /\ sel' = <<>>
    /\ UNCHANGED <<script, prior, page_num, chunk_end, data, image_index, files, json_file,
                   flushed, last_page>>
    /\ error' = "ImageError"

\* the image loop is exhausted: on to the next page of the chunk
BandPageDone ==
    /\ script = "band" /\ pc = "match" /\ pos > Len(image_info)
    /\ page_num' = page_num + 1
    /\ pc' = "page"
    /\ id_entries' = <<>>
    /\ image_info' = <<>>
    /\ image_blocks' = <<>>
    /\ page_images' = <<>>
    /\ pos' = 0
    /\ sel' = <<>>
    /\ UNCHANGED <<script, prior, chunk_end, kmeans, outputVars, json_file, flushed, error>>
    /\ last_page' = "processed"

\* process_pages returns and the checkpoint file is opened with mode "w",
\* which truncates it
BandOpenCheckpoint ==
    /\ script = "band" /\ pc = "page" /\ page_num >= Min2(chunk_end, NumPages)
    /\ json_file' = Truncated
    /\ pc' = "dump"
    /\ UNCHANGED <<script, prior, page_num, chunk_end, pageVars, outputVars, flushed,
                   error, last_page>>

\* json.dump writes the mapping and the file is closed
BandDumpCheckpoint ==
    /\ script = "band" /\ pc = "dump"
    /\ json_file' = Written(data)
    /\ flushed' = data
    /\ pc' = "chunk"
    /\ UNCHANGED <<script, prior, page_num, chunk_end, pageVars, outputVars, error,
                   last_page>>

----------------------------------------------------------------------------
\* the process of the chunked script is ended from outside, at any point of
\* its run; the script does not handle it.  What the process held in memory
\* is gone, the files stay as they are
Terminate ==
    /\ script = "band"
    /\ Running
    /\ pc' = "terminated"
    /\ id_entries' = <<>>
    /\ image_info' = <<>>
    /\ image_blocks' = <<>>
    /\ page_images' = <<>>
    /\ kmeans' = NoModel
    /\ pos' = 0
    /\ sel' = <<>>
    /\ data' = EmptyMap
    /\ image_index' = 0
    /\ UNCHANGED <<script, prior, page_num, chunk_end, files, matched, json_file, flushed,
                   error, last_page>>

Next ==
    \/ ColumnSkipPage \/ ColumnBeginPage \/ ColumnClusterFit \/ ColumnClusterError
    \/ ColumnMatchNone \/ ColumnMatchSave \/ ColumnMatchFail \/ ColumnPageDone
    \/ ColumnSave
    \/ BandLoad \/ BandLoadError \/ BandNextChunk \/ BandFinish
    \/ BandSkipPage \/ BandBeginPage
    \/ BandMatchNone \/ BandMatchSave \/ BandMatchFail \/ BandPageDone
    \/ BandOpenCheckpoint \/ BandDumpCheckpoint
    \/ Terminate

Spec == Init /\ [][Next]_vars

----------------------------------------------------------------------------
(* Step 2 of src/extract_image_and_text.py followed block by block, on the  *)
(* last page of a document: the page's image blocks and image list stay in  *)
(* the state, so that the candidates can be compared with them, and steps 3 *)
(* to 6 follow as in Spec.                                                  *)

\* the text blocks of the page: one block
ResolveTexts == { t \in SubSeqsUpTo(ColumnTextBlocks, 1) : IdEntriesFirst(t) # <<>> }

\* more ways in which a placement can miss or meet its image block
ResolveKinds == PlacementKinds \cup {"near", "offy", "second"}

\* the pages of this specification: one image block more than Spec's pages
\* have, so that a page can lose a block and still be clustered
ResolvePages ==
    { [texts |-> t, image_blocks |-> b, page_images |-> PlacementsFor(b, kind)] :
        t \in ResolveTexts,
        b \in SubSeqsUpTo(ColumnImageBoxes, MaxImages + 1),
        kind \in ResolveKinds }

\* line 72 is reached with the identifier entries of the page (not empty in
\* this specification), its image blocks and its image list
InitResolve ==
    /\ script = "column"
    /\ pc = "entries"
    /\ page_num = NumPages - 1
    /\ chunk_end = 0
    /\ \E page \in ResolvePages :
         /\ id_entries = IdEntriesFirst(page.texts)
         /\ image_blocks = page.image_blocks
         /\ page_images = page.page_images
    /\ image_info = <<>>
    /\ kmeans = NoModel
    /\ pos = 0
    /\ sel = <<>>
    /\ data = EmptyMap
    /\ image_index = 0
    /\ files = {}
    /\ json_file = NoFile
    /\ error = "none"
    /\ matched = 0
    /\ flushed = EmptyMap
    /\ prior = EmptyMap
    /\ last_page = "none"

\* `if not id_entries or not page_images: continue`
ResolveSkipNoImages ==
    /\ script = "column" /\ pc = "entries"
    /\ page_images = <<>>
    /\ page_num' = page_num + 1
    /\ pc' = "page"
    /\ image_blocks' = <<>>
    /\ id_entries' = <<>>
    /\ UNCHANGED <<script, prior, chunk_end, image_info, page_images, kmeans, pos, sel,
                   outputVars, json_file, flushed, error>>
    /\ last_page' = "skipped"

\* the loop over image_blocks starts
ResolveBegin ==
    /\ script = "column" /\ pc = "entries"
    /\ page_images # <<>>
    /\ pc' = "resolve"
    /\ pos' = 1
    /\ UNCHANGED <<script, prior, page_num, chunk_end, id_entries, image_info,
                   image_blocks, page_images, kmeans, sel, outputVars, json_file,
                   flushed, error, last_page>>

\* one turn of `for block in image_blocks`: the block is appended to
\* image_info with its matching_xref, or passed over when it has none
ResolveBlock ==
    /\ script = "column" /\ pc = "resolve" /\ pos <= Len(image_blocks)
    /\ LET bbox == image_blocks[pos]
           matching_xref == MatchingXref(bbox, page_images)
       IN  image_info' =
             IF matching_xref = 0 THEN image_info
             ELSE Append(image_info,
                         [xref |-> matching_xref, bbox |-> bbox, cluster |-> -1])
    /\ pos' = pos + 1
    /\ UNCHANGED <<script, prior, pc, page_num, chunk_end, id_entries, image_blocks,
                   page_images, kmeans, sel, outputVars, json_file, flushed, error,
                   last_page>>

\* `if not image_info: continue`
ResolveSkipNoCandidates ==
    /\ script = "column" /\ pc = "resolve" /\ pos > Len(image_blocks)
    /\ image_info = <<>>
    /\ page_num' = page_num + 1
    /\ pc' = "page"
    /\ id_entries' = <<>>
    /\ image_blocks' = <<>>
    /\ page_images' = <<>>
    /\ pos' = 0
    /\ UNCHANGED <<script, prior, chunk_end, image_info, kmeans, sel, outputVars,
                   json_file, flushed, error>>
    /\ last_page' = "skipped"

\* the loop is exhausted and left candidates: on to step 3
ResolveDone ==
    /\ script = "column" /\ pc = "resolve" /\ pos > Len(image_blocks)
    /\ image_info # <<>>
    /\ pc' = "cluster"
    /\ pos' = 0
    /\ UNCHANGED <<script, prior, page_num, chunk_end, id_entries, image_info,
                   image_blocks, page_images, kmeans, sel, outputVars, json_file,
                   flushed, error, last_page>>

NextResolve ==
    \/ ResolveSkipNoImages \/ ResolveBegin \/ ResolveBlock
    \/ ResolveSkipNoCandidates \/ ResolveDone
    \/ ColumnClusterFit \/ ColumnClusterError
    \/ ColumnMatchNone \/ ColumnMatchSave \/ ColumnMatchFail \/ ColumnPageDone
    \/ ColumnSave

SpecResolve == InitResolve /\ [][NextResolve]_vars

----------------------------------------------------------------------------
(* Properties.  In a state with pc = "match", sel[k] is closest_id of the   *)
(* k-th image of the iteration order, Order[k], as an index into           *)
(* id_entries (0: None).                                                    *)

Entries == 1..Len(id_entries)

Handled == 1..Len(sel)

\* ----- C1 -----------------------------------------------------------------

C1_SameColumn(e, img) == Predict(kmeans, XCenter2(id_entries[e].bbox)) = img.cluster

C1_Below(e, img) == YCenter2(id_entries[e].bbox) > YCenter2(img.bbox)

C1_Dist(e, img) == YCenter2(id_entries[e].bbox) - YCenter2(img.bbox)

\* C1: under the column policy the entry chosen for an image is in the
\* image's column, has its vertical centre strictly below the image's, and
\* no entry meeting both is nearer; an image for which no entry meets both
\* gets no match.  An entry of another column is never chosen.
C1_ColumnTieBreak ==
    (script = "column" /\ pc = "match") =>
        \A k \in Handled :
            LET img == Order[k]
                ok(e) == C1_SameColumn(e, img) /\ C1_Below(e, img)
            IN  IF \E e \in Entries : ok(e)
                THEN /\ sel[k] \in Entries
                     /\ ok(sel[k])
                     /\ \A e \in Entries : ok(e) => C1_Dist(sel[k], img) <= C1_Dist(e, img)
                ELSE sel[k] = 0

\* an image is matched although an entry of another column lies below it,
\* strictly nearer than the entry chosen
C1_Witness ==
    /\ script = "column" /\ pc = "match"
    /\ \E k \in Handled :
         /\ sel[k] # 0
         /\ \E e \in Entries :
              /\ ~C1_SameColumn(e, Order[k])
              /\ C1_Below(e, Order[k])
              /\ C1_Dist(e, Order[k]) < C1_Dist(sel[k], Order[k])

\* ----- C2, C3 -------------------------------------------------------------

\* the closed interval [imageLeft - H, imageRight + H], in doubled units
InBand(e, img) ==
    /\ 2 * (img.bbox[1] - horizontal_tolerance) <= XCenter2(id_entries[e].bbox)
    /\ XCenter2(id_entries[e].bbox) <= 2 * (img.bbox[3] + horizontal_tolerance)

\* entryTop - imageBottom
TopDist(e, img) == id_entries[e].bbox[2] - img.bbox[4]

\* the boundary reading of the claim: entryTop >= imageBottom - 2
AtOrBelowTolerance(e, img) == TopDist(e, img) >= vertical_tolerance

\* what the script tests: entryTop > imageBottom - 2
BelowTolerance(e, img) == TopDist(e, img) > vertical_tolerance

\* every image handled on the page chose a nearest entry among those that
\* Vertical admits and that lie in the band, and None when there is none
BandSelects(Vertical(_, _)) ==
    (script = "band" /\ pc = "match") =>
        \A k \in Handled :
            LET img == Order[k]
                ok(e) == Vertical(e, img) /\ InBand(e, img)
            IN  IF \E e \in Entries : ok(e)
                THEN /\ sel[k] \in Entries
                     /\ ok(sel[k])
                     /\ \A e \in Entries : ok(e) => TopDist(sel[k], img) <= TopDist(e, img)
                ELSE sel[k] = 0

\* C2 as stated: an entry is eligible exactly when entryTop >= imageBottom - 2
\* (the boundary value eligible) and it is in the band; the eligible entry
\* minimising entryTop - imageBottom is chosen, None if there is none.
C2_AsStated == BandSelects(AtOrBelowTolerance)

\* C2 amended: an entry is eligible exactly when entryTop > imageBottom - 2
\* (the boundary value itself is not eligible) and it is in the band; the
\* eligible entry minimising entryTop - imageBottom is chosen, and an image
\* with no eligible entry gets no match.
C2_BandVertical == BandSelects(BelowTolerance)

\* an entry in the band sits exactly on the boundary, and the image chose
\* another entry, farther down
C2_Witness ==
    /\ script = "band" /\ pc = "match"
    /\ \E k \in Handled : \E e \in Entries :
         /\ TopDist(e, Order[k]) = vertical_tolerance
         /\ InBand(e, Order[k])
         /\ sel[k] # 0
         /\ TopDist(sel[k], Order[k]) > TopDist(e, Order[k])

\* C3: an entry passes the horizontal test exactly when its horizontal centre
\* lies in [imageLeft - H, imageRight + H], end points included: the entry
\* chosen is always in the interval, and every entry in the interval that
\* passes the vertical test competes (the image is matched, to an entry at
\* most as far down).
C3_BandHorizontal ==
    (script = "band" /\ pc = "match") =>
        \A k \in Handled :
            /\ sel[k] # 0 => InBand(sel[k], Order[k])
            /\ \A e \in Entries :
                 (InBand(e, Order[k]) /\ BelowTolerance(e, Order[k])) =>
                     /\ sel[k] # 0
                     /\ TopDist(sel[k], Order[k]) <= TopDist(e, Order[k])

\* the entry chosen is centred exactly on imageRight + H, although an entry
\* centred outside the interval is nearer below the image
C3_Witness ==
    /\ script = "band" /\ pc = "match"
    /\ \E k \in Handled :
         /\ sel[k] # 0
         /\ XCenter2(id_entries[sel[k]].bbox) = 2 * (Order[k].bbox[3] + horizontal_tolerance)
         /\ \E e \in Entries :
              /\ ~InBand(e, Order[k])
              /\ BelowTolerance(e, Order[k])
              /\ TopDist(e, Order[k]) < TopDist(sel[k], Order[k])

\* ----- C4 -----------------------------------------------------------------

IntKeys(n) == { IntKey(i) : i \in 0..(n - 1) }

\* the run started without a mapping and its process still exists
FreshRun == DOMAIN prior = {} /\ pc # "terminated"

\* C4 as stated: in a run started with no existing mapping the keys are
\* exactly 0..n-1 and the counter is n, n the number of images so far that
\* found an eligible match.
C4_AsStated ==
    FreshRun => (DOMAIN data = IntKeys(matched) /\ image_index = matched)

\* C4 amended: the keys are exactly 0..n-1 and the counter is n, n the number
\* of images so far that found an eligible match and whose image was
\* persisted (img_0 .. img_n-1 are the files written); the images that found
\* a match are these n, and one more only when the fetch or write of that
\* image raised.
C4_DenseKeys ==
    FreshRun =>
        LET n == Cardinality(files)
        IN  /\ files = 0..(n - 1)
            /\ DOMAIN data = IntKeys(n)
            /\ image_index = n
            /\ \A i \in 0..(n - 1) : data[IntKey(i)].image = i
            /\ matched \in {n, n + 1}
            /\ matched = n + 1 => error = "ImageError"

\* an image without a match was handled before an image with one, and the
\* counter still equals the number of matches
C4_Witness ==
    /\ FreshRun /\ pc = "match"
    /\ \E k \in Handled : \E j \in Handled : k < j /\ sel[k] = 0 /\ sel[j] # 0
    /\ image_index = matched
    /\ image_index >= 1

\* ----- C5 -----------------------------------------------------------------

C5_NextIndex ==
    IF DOMAIN prior = {} THEN 0
    ELSE 1 + (CHOOSE m \in { k.v : k \in DOMAIN prior } :
                 \A k \in DOMAIN prior : k.v <= m)

\* C5: started on an existing mapping, the run proceeds with a counter at
\* least one greater than the largest existing index (0 without a mapping),
\* and every loaded record is still there, unchanged.
C5_Resumes ==
    (script = "band" /\ pc \notin {"start", "terminated"}) =>
        /\ error # "TypeError"
        /\ image_index >= C5_NextIndex
        /\ \A k \in DOMAIN prior : k \in DOMAIN data /\ data[k] = prior[k]

\* ----- C6 -----------------------------------------------------------------

\* C6: when the fetch or write of a confirmed match's image fails (a match
\* was found and no image persisted for it), the run is not ended.
C6_FailureSkipsOneMatch ==
    (pc # "terminated" /\ matched > Cardinality(files)) => error = "none"

\* ----- C7 -----------------------------------------------------------------

\* C7: the clusterer never fails on a page, however few image candidates
\* (at least one) it has.
C7_FewCandidatesFit == script = "column" => error # "ValueError"

\* ----- C8 -----------------------------------------------------------------

\* C8: wherever the process is terminated, every record of the last
\* completed checkpoint is in the JSON file.
C8_CheckpointSurvives ==
    pc = "terminated" =>
        \A k \in DOMAIN flushed :
            /\ JsonKey(k) \in DOMAIN json_file.content
            /\ json_file.content[JsonKey(k)] = flushed[k]

\* ----- C9 -----------------------------------------------------------------

C9_Eligible(e, img) ==
    IF script = "column" THEN ColumnEligible(id_entries[e], img, kmeans)
    ELSE BelowImage(id_entries[e], img) /\ HorizontallyAligned(id_entries[e], img)

C9_Dist(e, img) == IF script = "column" THEN C1_Dist(e, img) ELSE TopDist(e, img)

\* the entry the policy gives img on its own: the nearest eligible entry,
\* the first in id_entries among equally near ones; 0 if none is eligible
C9_Nearest(img) ==
    IF \A e \in Entries : ~C9_Eligible(e, img) THEN 0
    ELSE CHOOSE e \in Entries :
            /\ C9_Eligible(e, img)
            /\ \A f \in Entries :
                 C9_Eligible(f, img) =>
                     \/ C9_Dist(e, img) < C9_Dist(f, img)
                     \/ (C9_Dist(e, img) = C9_Dist(f, img) /\ e <= f)

IsMatch(c) == c # 0

\* C9: every image's entry is the one the policy gives that image on its
\* own, whatever the images before it chose (so two images with the same
\* nearest entry both get it), and the records of the page carry, in the
\* order of the matches, the identifiers of the entries chosen.
C9_NoMutualExclusion ==
    pc = "match" =>
        LET hits == SelectSeq(sel, IsMatch)
        IN  /\ \A k \in Handled : sel[k] = C9_Nearest(Order[k])
            /\ \A r \in 1..Len(hits) :
                 LET key == IntKey(image_index - Len(hits) + r - 1)
                 IN  /\ key \in DOMAIN data
                     /\ data[key].unique_number = id_entries[hits[r]].id
                     /\ data[key].page = page_num + 1

\* two images of one column chose the same entry and both have a record
\* with its identifier
C9_Witness ==
    /\ script = "column" /\ pc = "match" /\ Len(sel) >= 2
    /\ LET j == Len(sel)
       IN  /\ sel[j] # 0
           /\ sel[j - 1] = sel[j]
           /\ Order[j - 1].cluster = Order[j].cluster
           /\ IntKey(image_index - 2) \in DOMAIN data
           /\ data[IntKey(image_index - 1)].unique_number = id_entries[sel[j]].id
           /\ data[IntKey(image_index - 2)].unique_number = id_entries[sel[j]].id

\* ----- C10 ----------------------------------------------------------------

\* C10: clustering and association are only ever entered with identifier
\* entries and image candidates both non-empty; a page left without them is
\* a step to the next page that changes neither the mapping, the counter,
\* the image files, the JSON file nor the fitted clusters.
C10_ShortCircuit ==
    /\ [](pc \in {"cluster", "match"} => (id_entries # <<>> /\ image_info # <<>>))
    /\ [][(pc = "page" /\ page_num' # page_num) =>
             /\ pc' = "page"
             /\ page_num' = page_num + 1
             /\ id_entries' = <<>> /\ image_info' = <<>>
             /\ UNCHANGED <<data, image_index, files, json_file, kmeans, matched>>]_vars

\* a page was skipped after earlier pages had produced records
C10_Witness == pc = "page" /\ last_page = "skipped" /\ image_index > 0


\* ----- C11 ----------------------------------------------------------------

\* an enumerated image placement: an entry of page.get_images() with the
\* rectangle the script reads for it, get_image_rects(xref)[0]; its top-left
\* corner is within 2 units of bbox's on both axes (a distance of exactly 2
\* is not within)
C11_Within(img, bbox) ==
    /\ img.rects # <<>>
    /\ Abs(img.rects[1][1] - bbox[1]) < 2
    /\ Abs(img.rects[1][2] - bbox[2]) < 2

C11_Resolvable(bbox) ==
    \E j \in 1..Len(page_images) : C11_Within(page_images[j], bbox)

\* the image blocks step 2 has gone through
C11_Seen ==
    IF pc = "resolve" THEN 1..(pos - 1)
    ELSE IF pc \in {"cluster", "match"} THEN 1..Len(image_blocks)
    ELSE {}

C11_Candidates == { image_info[i].bbox : i \in 1..Len(image_info) }

C12_RunKeys == { k \in DOMAIN data : k.t = "int" }

\* the matched images handled so far on the page being processed
C12_Saved == { k \in Handled : sel[k] # 0 }

\* the key of the record made for the k-th image of the page's image loop
C12_KeyOf(k) ==
    IntKey(image_index - Cardinality({ j \in C12_Saved : j >= k }))

\* C12: the page number only ever advances by one, and one page is in
\* process at a time; a record made in a step carries the (1-based) number
\* of the page in process; within a run the page field does not decrease as
\* the index grows; and in the column script the records of the page in
\* process are in the order of the image loop, which is ascending in the
\* images' vertical centre.
C12_OutputOrder ==
    /\ [][page_num' = page_num \/ page_num' = page_num + 1]_vars
    /\ [][(pc \in {"cluster", "match"} /\ pc' \in {"cluster", "match"}) =>
             page_num' = page_num]_vars
    /\ [][(Running' /\ DOMAIN data' # DOMAIN data /\ pc # "start") =>
             /\ pc = "match" /\ page_num' = page_num
             /\ DOMAIN data' = DOMAIN data \cup {IntKey(image_index)}
             /\ IntKey(image_index) \notin DOMAIN data
             /\ data'[IntKey(image_index)].page = page_num + 1
             /\ \A k \in DOMAIN data : data'[k] = data[k]]_vars
    /\ [](\A k1 \in C12_RunKeys : \A k2 \in C12_RunKeys :
             k1.v < k2.v => data[k1].page <= data[k2].page)
    /\ []((script = "column" /\ pc = "match") =>
             /\ \A k \in C12_Saved :
                  /\ C12_KeyOf(k) \in DOMAIN data
                  /\ data[C12_KeyOf(k)].page = page_num + 1
                  /\ data[C12_KeyOf(k)].unique_number = id_entries[sel[k]].id
             /\ \A k1 \in C12_Saved : \A k2 \in C12_Saved :
                  k1 < k2 =>
                    /\ C12_KeyOf(k1).v < C12_KeyOf(k2).v
                    /\ YCenter2(Order[k1].bbox) <= YCenter2(Order[k2].bbox))

\* the column script made records on two pages, and two for the page in
\* process, whose second image is lower on the page than its first
C12_Witness ==
    /\ script = "column" /\ pc = "match"
    /\ \E k \in C12_RunKeys : data[k].page < page_num + 1
    /\ \E k1 \in C12_Saved : \E k2 \in C12_Saved :
         /\ k1 < k2
         /\ YCenter2(Order[k1].bbox) < YCenter2(Order[k2].bbox)
         /\ \E i \in 1..Len(image_info) : \E j \in 1..Len(image_info) :
              i > j /\ image_info[i] = Order[k1] /\ image_info[j] = Order[k2]
====
